---------------------------- MODULE Spec2Model ----------------------------
(***************************************************************************)
(* Cost-based operator simulator of BigDataStructure (td4/td4.py, with the *)
(* earlier td3/TD3.py): calculate_costs, CostResult.add, simulate_filter,  *)
(* simulate_aggregate and simulate_join.                                   *)
(*                                                                         *)
(* Python numbers are modelled with their kind.  An int is exact and       *)
(* unbounded.  A float is a binary floating-point number m * 2^e whose     *)
(* significand has at most Precision bits; every float operation returns   *)
(* the exact result rounded to nearest, ties to even, as IEEE 754 does.    *)
(* binary64 has 53 significand bits; Precision is smaller so that the      *)
(* exact intermediate results fit the integers of the model checker.  The  *)
(* exponent is unbounded (no overflow, underflow or subnormal numbers).    *)
(***************************************************************************)
EXTENDS Integers, Sequences, FiniteSets, TLC

(***************************************************************************)
(* Bounds of the model.                                                    *)
(***************************************************************************)
Precision == 8

(***************************************************************************)
(* Numbers.  [int |-> TRUE, m |-> n, e |-> 0] is the Python int n;         *)
(* [int |-> FALSE, m |-> m, e |-> e] is the Python float m * 2^e, with m   *)
(* odd (or m = 0 and e = 0), so that equal floats are equal records.       *)
(***************************************************************************)
RECURSIVE Pow2(_)
Pow2(k) == IF k <= 0 THEN 1 ELSE 2 * Pow2(k - 1)

Abs(n) == IF n < 0 THEN -n ELSE n

Sgn(n) == IF n < 0 THEN -1 ELSE IF n = 0 THEN 0 ELSE 1

RECURSIVE BitLen(_)
BitLen(n) == IF n = 0 THEN 0 ELSE 1 + BitLen(n \div 2)

RECURSIVE Canon(_, _)
Canon(m, e) ==
    IF m = 0 THEN [m |-> 0, e |-> 0]
    ELSE IF m % 2 = 0 THEN Canon(m \div 2, e + 1)
    ELSE [m |-> m, e |-> e]

\* 2^Precision: a significand is below it.
MaxSig == Pow2(Precision)

\* Scales a / d into [2^Precision, 2^(Precision+1)), keeping (a / d) * 2^e.
RECURSIVE Norm(_, _, _)
Norm(a, d, e) ==
    IF a < d * MaxSig THEN Norm(2 * a, d, e - 1)
    ELSE IF a >= d * 2 * MaxSig THEN Norm(a, 2 * d, e + 1)
    ELSE [a |-> a, d |-> d, e |-> e]

\* Only(S): the element of a one-element set.  {F(a) : a \in {x}} evaluates x
\* once and gives F its value: operands are evaluated before the operation.
Only(S) == CHOOSE r \in S : TRUE

\* The float sign * (s.a / s.d) * 2^s.e for s.a / s.d scaled by Norm:
\* Precision bits are kept, the next bit and the remainder decide the rounding.
RoundScaled(sign, s) ==
    LET q  == s.a \div s.d
        m0 == q \div 2
        up == (q % 2 = 1) /\ ((s.a % s.d) # 0 \/ m0 % 2 = 1)
        c  == Canon(sign * (IF up THEN m0 + 1 ELSE m0), s.e + 1)
    IN  [int |-> FALSE, m |-> c.m, e |-> c.e]

\* The float nearest to (n / d) * 2^e (d > 0), ties to even.
RoundND(n, d, e) ==
    IF n = 0 THEN [int |-> FALSE, m |-> 0, e |-> 0]
    ELSE Only({RoundScaled(Sgn(n), s) : s \in {Norm(Abs(n), d, e)}})

I(n) == [int |-> TRUE, m |-> n, e |-> 0]

\* A float literal: the float nearest to n / d.
Fl(n, d) == RoundND(n, d, 0)

\* float(x)
ToFloat(x) == IF x.int THEN RoundND(x.m, 1, 0) ELSE x

\* The mathematical value of a number, as m * 2^e with m odd.
Val(x) == Canon(x.m, x.e)

\* x == y in Python: an int and a float are equal when their values are.
NumEq(x, y) == Val(x) = Val(y)

IsZero(x) == x.m = 0

\* a + b of two floats.
FAdd(a, b) ==
    IF a.m = 0 THEN b
    ELSE IF b.m = 0 THEN a
    ELSE LET hi == IF a.e >= b.e THEN a ELSE b
             lo == IF a.e >= b.e THEN b ELSE a
             k  == hi.e - lo.e
         IN  IF k > 2 * Precision + 2 THEN hi
             ELSE RoundND(hi.m * Pow2(k) + lo.m, 1, lo.e)

\* a * b of two floats.
FMul(a, b) == RoundND(a.m * b.m, 1, a.e + b.e)

\* a / b of two floats, b # 0.
FDiv(a, b) == RoundND(Sgn(b.m) * a.m, Abs(b.m), a.e - b.e)

\* x + y
Add(x, y) ==
    Only({ IF a.int /\ b.int THEN I(a.m + b.m)
           ELSE Only({FAdd(fa, fb) : fa \in {ToFloat(a)}, fb \in {ToFloat(b)}}) :
           a \in {x}, b \in {y} })

\* x * y
Mul(x, y) ==
    Only({ IF a.int /\ b.int THEN I(a.m * b.m)
           ELSE Only({FMul(fa, fb) : fa \in {ToFloat(a)}, fb \in {ToFloat(b)}}) :
           a \in {x}, b \in {y} })

\* x / y for y # 0 (true division: int / int is the correctly rounded
\* quotient; otherwise both operands are converted to float first).
Div(x, y) ==
    Only({ IF a.int /\ b.int
           THEN Only({RoundND(Sgn(b.m) * a.m, c.m, -c.e) :
                      c \in {Canon(Abs(b.m), 0)}})
           ELSE Only({FDiv(fa, fb) : fa \in {ToFloat(a)}, fb \in {ToFloat(b)}}) :
           a \in {x}, b \in {y} })

\* a < b, exactly.
LessV(a, b) ==
    LET sa == Sgn(a.m)
        sb == Sgn(b.m)
        ma == a.e + BitLen(Abs(a.m))
        mb == b.e + BitLen(Abs(b.m))
        e0 == IF a.e < b.e THEN a.e ELSE b.e
    IN  IF sa # sb THEN sa < sb
        ELSE IF sa = 0 THEN FALSE
        ELSE IF ma # mb THEN (IF sa > 0 THEN ma < mb ELSE ma > mb)
        ELSE a.m * Pow2(a.e - e0) < b.m * Pow2(b.e - e0)

\* x < y
Less(x, y) == Only({LessV(a, b) : a \in {x}, b \in {y}})

\* min(x, y): the first argument unless the second is smaller.
Min(x, y) == Only({(IF LessV(b, a) THEN b ELSE a) : a \in {x}, b \in {y}})

\* max(x, y): the first argument unless the second is larger.
Max(x, y) == Only({(IF LessV(a, b) THEN b ELSE a) : a \in {x}, b \in {y}})

\* int(x): truncation towards zero.
TruncV(a) ==
    IF a.int THEN a
    ELSE IF a.e >= 0 THEN I(a.m * Pow2(a.e))
    ELSE IF -a.e > Precision THEN I(0)
    ELSE I(Sgn(a.m) * (Abs(a.m) \div Pow2(-a.e)))

Trunc(x) == Only({TruncV(a) : a \in {x}})

(***************************************************************************)
(* Python's None: None where a name or key is expected, Nothing where a    *)
(* number or a dict is expected.  A call either returns a value or raises. *)
(***************************************************************************)
None == "<None>"

Nothing == [none |-> TRUE]

Ok(v) == [kind |-> "ok", val |-> v]

Raise(x) == [kind |-> "raise", val |-> x]

\* bool(x) of an optional int: None and 0 are false.
TruthyNum(x) == x # Nothing /\ ~IsZero(x)

\* bool(x) of an optional dict of an operator's output (never empty).
TruthyDict(x) == x # Nothing

\* bool(x) of an optional key: None is false (keys are non-empty strings).
TruthyKey(x) == x # None

(***************************************************************************)
(* Constants for costs.                                                    *)
(***************************************************************************)
IO_SPEED_BYTES_S == 100 * 1024 * 1024

NETWORK_SPEED_BYTES_S == 10 * 1024 * 1024

CARBON_INTENSITY_G_KWH == 50

POWER_CONSUMPTION_W == 200

KWH_PRICE == Fl(15, 100)

(***************************************************************************)
(* Collection.total_size_bytes                                             *)
(***************************************************************************)
total_size_bytes(c) == c.count * c.doc_size

(***************************************************************************)
(* CostResult.add: a new CostResult, every component summed except         *)
(* nodes_involved, which is the maximum.                                   *)
(***************************************************************************)
add(self, other) ==
    [time_s              |-> Add(self.time_s, other.time_s),
     carbon_g            |-> Add(self.carbon_g, other.carbon_g),
     price_eur           |-> Add(self.price_eur, other.price_eur),
     time_read_s         |-> Add(self.time_read_s, other.time_read_s),
     time_transfer_s     |-> Add(self.time_transfer_s, other.time_transfer_s),
     energy_kwh          |-> Add(self.energy_kwh, other.energy_kwh),
     nodes_involved      |-> Max(self.nodes_involved, other.nodes_involved),
     data_read_bytes     |-> Add(self.data_read_bytes, other.data_read_bytes),
     data_transfer_bytes |-> Add(self.data_transfer_bytes, other.data_transfer_bytes)]

(***************************************************************************)
(* calculate_costs: the division by nodes_involved raises                  *)
(* ZeroDivisionError when nodes_involved is 0; nothing else is checked.    *)
(***************************************************************************)
\* The CostResult of a call whose nodes_involved is not 0.
cost_result(data_read_bytes, data_transfer_bytes, nodes_involved, time_read, time_transfer, total_time, energy_kwh) ==
    [time_s              |-> total_time,
     carbon_g            |-> Mul(energy_kwh, I(CARBON_INTENSITY_G_KWH)),
     price_eur           |-> Mul(energy_kwh, KWH_PRICE),
     time_read_s         |-> time_read,
     time_transfer_s     |-> time_transfer,
     energy_kwh          |-> energy_kwh,
     nodes_involved      |-> nodes_involved,
     data_read_bytes     |-> data_read_bytes,
     data_transfer_bytes |-> data_transfer_bytes]

\* Mutant of total_time_of: the time is not divided among the nodes.
total_time_serial(time_read, time_transfer, nodes_involved) ==
    Add(time_read, time_transfer)

\* total_time of calculate_costs.
total_time_of(time_read, time_transfer, nodes_involved) ==
    Div(Add(time_read, time_transfer), nodes_involved)

\* Mutant of energy_kwh_of: one node draws power, whatever nodes_involved.
energy_kwh_one_node(total_time, nodes_involved) ==
    Div(Mul(I(POWER_CONSUMPTION_W), Div(total_time, Fl(3600, 1))),
        Fl(1000, 1))

\* energy_kwh of calculate_costs.
energy_kwh_of(total_time, nodes_involved) ==
    Div(Mul(Mul(I(POWER_CONSUMPTION_W), Div(total_time, Fl(3600, 1))),
            nodes_involved),
        Fl(1000, 1))

calculate_costs(data_read_bytes, data_transfer_bytes, nodes_involved) ==
    Only({ IF IsZero(n) THEN Raise("ZeroDivisionError")
           ELSE Only({ Only({ Only({ Ok(cost_result(r, t, n, time_read,
                                                    time_transfer, total_time,
                                                    energy_kwh)) :
                 energy_kwh \in {energy_kwh_of(total_time, n)} }) :
               total_time \in {total_time_of(time_read, time_transfer, n)} }) :
             time_read \in {Div(r, I(IO_SPEED_BYTES_S))},
             time_transfer \in {Div(t, I(NETWORK_SPEED_BYTES_S))} }) :
           r \in {data_read_bytes}, t \in {data_transfer_bytes},
           n \in {nodes_involved} })

\* The dict an operator returns, or the exception calculate_costs raised.
\* "Sharding keys" is kept as the sequence of the key names it lists.
Output(db, sh_keys, index, algo, output_count, output_size, costs) ==
    IF costs.kind = "raise" THEN costs
    ELSE Ok([Database      |-> db.name,
             Sharding_keys |-> sh_keys,
             Index         |-> index,
             Algo          |-> algo,
             OutputDocs    |-> Trunc(output_count),
             OutputSize    |-> output_size,
             Costs         |-> costs.val])

(***************************************************************************)
(* Operators.  db is [name, nb_servers, collections], collections a        *)
(* function from collection names to [count, doc_size]; input_data is      *)
(* Nothing or the dict a previous operator returned.                       *)
(***************************************************************************)
\* The f-string "Shard / {algo}".
ShardPrefix(algo) ==
    CASE algo = "Full scan" -> "Shard / Full scan"
      [] algo = "Index"     -> "Shard / Index"

\* The strategy label of a filter (algo).
filter_algo(has_index, sharding_key) ==
    LET algo == IF has_index THEN "Index" ELSE "Full scan"
    IN  IF TruthyKey(sharding_key) THEN ShardPrefix(algo) ELSE algo

\* Mutant of filter_plan: the owning node reads the whole collection.
filter_plan_whole_collection(db, total_size, output_size, filter_key, sharding_key, has_index) ==
    LET factor == IF has_index THEN Fl(1, 100) ELSE Fl(1, 1)
    IN  IF TruthyKey(sharding_key) /\ filter_key = sharding_key
        THEN [nodes_involved |-> I(1),
              data_read      |-> Mul(total_size, factor),
              data_transfer  |-> I(0)]
        ELSE [nodes_involved |-> I(db.nb_servers),
              data_read      |-> Mul(total_size, factor),
              data_transfer  |-> IF TruthyKey(sharding_key) THEN output_size
                                 ELSE I(0)]

\* Mutant of filter_plan: the result of a sharded scan is never gathered.
filter_plan_never_gathers(db, total_size, output_size, filter_key, sharding_key, has_index) ==
    LET factor == IF has_index THEN Fl(1, 100) ELSE Fl(1, 1)
    IN  IF TruthyKey(sharding_key) /\ filter_key = sharding_key
        THEN [nodes_involved |-> I(1),
              data_read      |-> Mul(Div(total_size, I(db.nb_servers)), factor),
              data_transfer  |-> I(0)]
        ELSE [nodes_involved |-> I(db.nb_servers),
              data_read      |-> Mul(total_size, factor),
              data_transfer  |-> I(0)]

\* nodes_involved, data_read and data_transfer of a filter.  The division by
\* db.nb_servers is evaluated only on the shard-key branch.
filter_plan(db, total_size, output_size, filter_key, sharding_key, has_index) ==
    LET factor == IF has_index THEN Fl(1, 100) ELSE Fl(1, 1)
    IN  IF TruthyKey(sharding_key) /\ filter_key = sharding_key
        THEN [nodes_involved |-> I(1),
              data_read      |-> Mul(Div(total_size, I(db.nb_servers)), factor),
              data_transfer  |-> I(0)]
        ELSE [nodes_involved |-> I(db.nb_servers),
              data_read      |-> Mul(total_size, factor),
              data_transfer  |-> IF TruthyKey(sharding_key) THEN output_size
                                 ELSE I(0)]

simulate_filter(db, coll_name, filter_key, selectivity, sharding_key, has_index, input_data) ==
    IF ~TruthyDict(input_data) /\ coll_name \notin DOMAIN db.collections
    THEN Raise("KeyError")
    ELSE
    LET collection == db.collections[coll_name]
        count      == IF TruthyDict(input_data) THEN input_data.OutputDocs
                      ELSE I(collection.count)
        doc_size   == IF TruthyDict(input_data)
                      THEN (IF Less(I(0), count)
                            THEN Div(input_data.OutputSize, count) ELSE I(0))
                      ELSE I(collection.doc_size)
        total_size == IF TruthyDict(input_data) THEN input_data.OutputSize
                      ELSE I(total_size_bytes(collection))
        output_count == Mul(count, selectivity)
        output_size  == Mul(output_count, doc_size)
        plan == filter_plan(db, total_size, output_size, filter_key,
                            sharding_key, has_index)
    IN  IF TruthyKey(sharding_key) /\ filter_key = sharding_key
           /\ db.nb_servers = 0
        THEN Raise("ZeroDivisionError")
        ELSE Output(db,
                    IF TruthyKey(sharding_key) THEN <<sharding_key>>
                    ELSE <<"None">>,
                    IF has_index THEN filter_key ELSE "None",
                    filter_algo(has_index, sharding_key),
                    output_count, output_size,
                    calculate_costs(plan.data_read, plan.data_transfer,
                                    plan.nodes_involved))

\* Mutant of aggregate_plan: the shuffle moves every byte read.
aggregate_plan_full_shuffle(db, total_size, group_keys, sharding_key) ==
    IF TruthyKey(sharding_key)
    THEN IF group_keys = sharding_key
         THEN [algo           |-> "Shard / Local Aggregate",
               nodes_involved |-> I(db.nb_servers),
               data_read      |-> total_size,
               data_transfer  |-> I(0)]
         ELSE [algo           |-> "Map/Reduce Aggregate (Shuffle)",
               nodes_involved |-> I(db.nb_servers),
               data_read      |-> total_size,
               data_transfer  |-> total_size]
    ELSE [algo           |-> "Local Aggregate",
          nodes_involved |-> I(1),
          data_read      |-> total_size,
          data_transfer  |-> I(0)]

\* algo, nodes_involved, data_read and data_transfer of an aggregate.
aggregate_plan(db, total_size, group_keys, sharding_key) ==
    IF TruthyKey(sharding_key)
    THEN IF group_keys = sharding_key
         THEN [algo           |-> "Shard / Local Aggregate",
               nodes_involved |-> I(db.nb_servers),
               data_read      |-> total_size,
               data_transfer  |-> I(0)]
         ELSE [algo           |-> "Map/Reduce Aggregate (Shuffle)",
               nodes_involved |-> I(db.nb_servers),
               data_read      |-> total_size,
               data_transfer  |-> Mul(total_size, Fl(1, 2))]
    ELSE [algo           |-> "Local Aggregate",
          nodes_involved |-> I(1),
          data_read      |-> total_size,
          data_transfer  |-> I(0)]

\* Mutant of simulate_aggregate: the bytes of the collection named are read
\* whenever the catalog has it, input_data or not.
simulate_aggregate_catalog_size(db, coll_name, group_keys, sharding_key, input_data, distinct_values) ==
    IF ~TruthyDict(input_data) /\ coll_name \notin DOMAIN db.collections
    THEN Raise("KeyError")
    ELSE
    LET collection == db.collections[coll_name]
        count      == IF TruthyDict(input_data) THEN input_data.OutputDocs
                      ELSE I(collection.count)
        total_size == IF coll_name \in DOMAIN db.collections
                      THEN I(total_size_bytes(collection))
                      ELSE input_data.OutputSize
        output_count == IF TruthyNum(distinct_values) THEN distinct_values
                        ELSE Mul(count, Fl(1, 10))
        output_size  == Mul(output_count, I(100))
        plan == aggregate_plan(db, total_size, group_keys, sharding_key)
    IN  Output(db,
               IF TruthyKey(sharding_key) THEN <<sharding_key>>
               ELSE <<"None">>,
               "None", plan.algo, output_count, output_size,
               calculate_costs(plan.data_read, plan.data_transfer,
                               plan.nodes_involved))

simulate_aggregate(db, coll_name, group_keys, sharding_key, input_data, distinct_values) ==
    IF ~TruthyDict(input_data) /\ coll_name \notin DOMAIN db.collections
    THEN Raise("KeyError")
    ELSE
    LET collection == db.collections[coll_name]
        count      == IF TruthyDict(input_data) THEN input_data.OutputDocs
                      ELSE I(collection.count)
        total_size == IF TruthyDict(input_data) THEN input_data.OutputSize
                      ELSE I(total_size_bytes(collection))
        output_count == IF TruthyNum(distinct_values) THEN distinct_values
                        ELSE Mul(count, Fl(1, 10))
        output_size  == Mul(output_count, I(100))
        plan == aggregate_plan(db, total_size, group_keys, sharding_key)
    IN  Output(db,
               IF TruthyKey(sharding_key) THEN <<sharding_key>>
               ELSE <<"None">>,
               "None", plan.algo, output_count, output_size,
               calculate_costs(plan.data_read, plan.data_transfer,
                               plan.nodes_involved))

\* sharding_info is Nothing or a non-empty dict; its outer and inner are what
\* sharding_info.get("outer") and sharding_info.get("inner") return.
TruthyInfo(sharding_info) == sharding_info # Nothing

\* Mutant of join_output_size: the inner document is left out of the row.
join_output_size_outer_only(output_count, c_outer_doc_size, c_inner_doc_size) ==
    Mul(output_count, c_outer_doc_size)

\* output_size of a join.
join_output_size(output_count, c_outer_doc_size, c_inner_doc_size) ==
    Mul(output_count, Add(c_outer_doc_size, c_inner_doc_size))

\* Mutant of join_plan: the outer side is always the one shuffled.
join_plan_shuffle_outer(db, c_outer_size, c_inner_size, join_key, sharding_info) ==
    IF TruthyInfo(sharding_info)
    THEN LET outer_sh == sharding_info.outer
             inner_sh == sharding_info.inner
         IN  IF outer_sh = join_key /\ inner_sh = join_key
             THEN [algo           |-> "Shard / Nested Loop",
                   sh_keys        |-> <<outer_sh, inner_sh>>,
                   nodes_involved |-> I(db.nb_servers),
                   data_read      |-> Add(c_outer_size, c_inner_size),
                   data_transfer  |-> I(0)]
             ELSE [algo           |-> "Map/Reduce & Nested Loop",
                   sh_keys        |-> <<outer_sh, inner_sh>>,
                   nodes_involved |-> I(db.nb_servers),
                   data_read      |-> Add(c_outer_size, c_inner_size),
                   data_transfer  |-> c_outer_size]
    ELSE [algo           |-> "Nested Loop",
          sh_keys        |-> <<"None">>,
          nodes_involved |-> I(1),
          data_read      |-> Add(c_outer_size, c_inner_size),
          data_transfer  |-> I(0)]

\* algo, sh_keys, nodes_involved, data_read and data_transfer of a join.
\* sh_keys, the f-string "{outer_sh}, {inner_sh}", is kept as the pair of
\* its parts.
join_plan(db, c_outer_size, c_inner_size, join_key, sharding_info) ==
    IF TruthyInfo(sharding_info)
    THEN LET outer_sh == sharding_info.outer
             inner_sh == sharding_info.inner
         IN  IF outer_sh = join_key /\ inner_sh = join_key
             THEN [algo           |-> "Shard / Nested Loop",
                   sh_keys        |-> <<outer_sh, inner_sh>>,
                   nodes_involved |-> I(db.nb_servers),
                   data_read      |-> Add(c_outer_size, c_inner_size),
                   data_transfer  |-> I(0)]
             ELSE [algo           |-> "Map/Reduce & Nested Loop",
                   sh_keys        |-> <<outer_sh, inner_sh>>,
                   nodes_involved |-> I(db.nb_servers),
                   data_read      |-> Add(c_outer_size, c_inner_size),
                   data_transfer  |-> Min(c_outer_size, c_inner_size)]
    ELSE [algo           |-> "Nested Loop",
          sh_keys        |-> <<"None">>,
          nodes_involved |-> I(1),
          data_read      |-> Add(c_outer_size, c_inner_size),
          data_transfer  |-> I(0)]

simulate_join(db, coll_outer, coll_inner, join_key, sharding_info, outer_input, inner_input) ==
    IF ~TruthyDict(outer_input) /\ coll_outer \notin DOMAIN db.collections
    THEN Raise("KeyError")
    ELSE IF ~TruthyDict(inner_input) /\ coll_inner \notin DOMAIN db.collections
    THEN Raise("KeyError")
    ELSE
    LET c_outer == db.collections[coll_outer]
        c_inner == db.collections[coll_inner]
        c_outer_count == IF TruthyDict(outer_input) THEN outer_input.OutputDocs
                         ELSE I(c_outer.count)
        c_outer_size  == IF TruthyDict(outer_input) THEN outer_input.OutputSize
                         ELSE I(total_size_bytes(c_outer))
        c_outer_doc_size ==
            IF TruthyDict(outer_input)
            THEN (IF Less(I(0), c_outer_count)
                  THEN Div(c_outer_size, c_outer_count) ELSE I(0))
            ELSE I(c_outer.doc_size)
        c_inner_count == IF TruthyDict(inner_input) THEN inner_input.OutputDocs
                         ELSE I(c_inner.count)
        c_inner_size  == IF TruthyDict(inner_input) THEN inner_input.OutputSize
                         ELSE I(total_size_bytes(c_inner))
        c_inner_doc_size ==
            IF TruthyDict(inner_input)
            THEN (IF Less(I(0), c_inner_count)
                  THEN Div(c_inner_size, c_inner_count) ELSE I(0))
            ELSE I(c_inner.doc_size)
        output_count == c_outer_count
        output_size  == join_output_size(output_count, c_outer_doc_size,
                                         c_inner_doc_size)
        plan == join_plan(db, c_outer_size, c_inner_size, join_key,
                          sharding_info)
    IN  Output(db, plan.sh_keys, "None", plan.algo, output_count, output_size,
               calculate_costs(plan.data_read, plan.data_transfer,
                               plan.nodes_involved))

(***************************************************************************)
(* Inputs.                                                                 *)
(***************************************************************************)
\* Sharding keys, and the key an operator filters, groups or joins on.
Keys == {"IDP", "IDC"}

OpKeys == {"IDP"}

CollNames == {"Product", "OrderLine"}

\* The catalog: document counts and the document sizes _compute_doc_size
\* gives (KEY_OVERHEAD + 8 for one number field, KEY_OVERHEAD + 80 for one
\* string field).
Catalog ==
    [Product   |-> [count |-> 10, doc_size |-> 20],
     OrderLine |-> [count |-> 3, doc_size |-> 92]]

NodeCounts == {1, 3, 7}

Databases ==
    { [name |-> "DB1", nb_servers |-> n, collections |-> Catalog] :
        n \in NodeCounts }

Selectivities == {Fl(1, 10), Fl(1, 2), I(1)}

DistinctValues == {Nothing, I(0), I(4)}

ShardingInfos == {Nothing} \cup [outer : Keys, inner : Keys]

(***************************************************************************)
(* State: the database, the last call with its arguments, what it         *)
(* returned or raised, and whether it consumed a previous output; the      *)
(* CostResult objects of the stages of a query (q7a["Costs"], ...), and    *)
(* their total once it is computed.                                        *)
(*                                                                         *)
(* Spec runs pipelines of two stages: an operator on the catalog, then an  *)
(* operator given the first one's output.  SpecCost calls calculate_costs  *)
(* directly, and totals the costs of three stages with add.                *)
(***************************************************************************)
VARIABLES db, call, res, chained, costs, total

vars == <<db, call, res, chained, costs, total>>

NoCall == [op |-> "none"]

Init ==
    /\ db \in Databases
    /\ call = NoCall
    /\ res = [kind |-> "none"]
    /\ chained = FALSE
    /\ costs = <<>>
    /\ total = Nothing

\* What the next call is given as input_data: nothing at the first stage,
\* the dict the first stage returned at the second.
Inputs ==
    IF call = NoCall THEN {Nothing}
    ELSE IF res.kind = "ok" /\ ~chained THEN {res.val}
    ELSE {}

\* The collection named beside an input: with input_data the name is not
\* looked up, and callers pass None.
CollArgs(input) ==
    IF input = Nothing THEN CollNames \cup {None} ELSE {"Product", None}

CallFilter ==
    \E input_data \in Inputs :
    \E coll_name \in CollArgs(input_data), filter_key \in OpKeys,
       selectivity \in Selectivities, sharding_key \in Keys \cup {None},
       has_index \in BOOLEAN :
        /\ call' = [op |-> "filter", coll_name |-> coll_name,
                    filter_key |-> filter_key, selectivity |-> selectivity,
                    sharding_key |-> sharding_key, has_index |-> has_index,
                    input_data |-> input_data]
        /\ res' = simulate_filter(db, coll_name, filter_key, selectivity,
                                  sharding_key, has_index, input_data)
        /\ chained' = (input_data # Nothing)
        /\ UNCHANGED <<db, costs, total>>

CallAggregate ==
    \E input_data \in Inputs :
    \E coll_name \in CollArgs(input_data), group_keys \in OpKeys,
       sharding_key \in Keys \cup {None},
       distinct_values \in DistinctValues :
        /\ call' = [op |-> "aggregate", coll_name |-> coll_name,
                    group_keys |-> group_keys, sharding_key |-> sharding_key,
                    input_data |-> input_data,
                    distinct_values |-> distinct_values]
        /\ res' = simulate_aggregate(db, coll_name, group_keys, sharding_key,
                                     input_data, distinct_values)
        /\ chained' = (input_data # Nothing)
        /\ UNCHANGED <<db, costs, total>>

\* At the second stage the previous output is the outer side, the inner
\* side, or both.
JoinInputs ==
    { io \in (Inputs \cup {Nothing}) \X (Inputs \cup {Nothing}) :
        /\ Inputs # {}
        /\ (call = NoCall \/ io[1] # Nothing \/ io[2] # Nothing) }

CallJoin ==
    \E io \in JoinInputs :
    \E coll_outer \in CollArgs(io[1]), coll_inner \in CollArgs(io[2]),
       join_key \in OpKeys, sharding_info \in ShardingInfos :
        /\ call' = [op |-> "join", coll_outer |-> coll_outer,
                    coll_inner |-> coll_inner, join_key |-> join_key,
                    sharding_info |-> sharding_info,
                    outer_input |-> io[1], inner_input |-> io[2]]
        /\ res' = simulate_join(db, coll_outer, coll_inner, join_key,
                                sharding_info, io[1], io[2])
        /\ chained' = (io[1] # Nothing \/ io[2] # Nothing)
        /\ UNCHANGED <<db, costs, total>>

Next == CallFilter \/ CallAggregate \/ CallJoin

Spec == Init /\ [][Next]_vars

(***************************************************************************)
(* calculate_costs and CostResult.add on their own.                        *)
(***************************************************************************)
\* Volumes the operators pass on the catalog above: a collection's bytes,
\* and a share or a part of them.
ReadBytes == {I(276), Div(I(200), I(3))}

TransferBytes == {I(0), Mul(Mul(I(3), Fl(1, 2)), I(92))}

\* nodes_involved as the operators pass it (1 or db.nb_servers), and as any
\* caller may pass it.
StageNodes == {1, 3, 7}

AnyNodes == {-1, 0} \cup StageNodes

InitCost ==
    /\ db = [name |-> "DB1", nb_servers |-> 1, collections |-> Catalog]
    /\ call = NoCall
    /\ res = [kind |-> "none"]
    /\ chained = FALSE
    /\ costs = <<>>
    /\ total = Nothing

\* A call of calculate_costs by any caller.
CallCalculateCosts ==
    \E data_read_bytes \in ReadBytes, data_transfer_bytes \in TransferBytes,
       nodes_involved \in AnyNodes :
        /\ costs = <<>>
        /\ call' = [op |-> "calculate_costs",
                    data_read_bytes |-> data_read_bytes,
                    data_transfer_bytes |-> data_transfer_bytes,
                    nodes_involved |-> I(nodes_involved)]
        /\ res' = calculate_costs(data_read_bytes, data_transfer_bytes,
                                  I(nodes_involved))
        /\ UNCHANGED <<db, chained, costs, total>>

\* The call of calculate_costs by a stage of a query, whose result the
\* query keeps (q7a["Costs"]).
StageCost ==
    \E data_read_bytes \in ReadBytes, data_transfer_bytes \in TransferBytes,
       nodes_involved \in StageNodes :
        /\ Len(costs) < 3
        /\ call' = [op |-> "calculate_costs",
                    data_read_bytes |-> data_read_bytes,
                    data_transfer_bytes |-> data_transfer_bytes,
                    nodes_involved |-> I(nodes_involved)]
        /\ res' = calculate_costs(data_read_bytes, data_transfer_bytes,
                                  I(nodes_involved))
        /\ costs' = Append(costs, res'.val)
        /\ UNCHANGED <<db, chained, total>>

\* q7a["Costs"].add(q7b["Costs"]).add(q7c["Costs"])
TotalInStageOrder ==
    /\ Len(costs) = 3
    /\ total = Nothing
    /\ total' = [order |-> "stage",
                 cost  |-> add(add(costs[1], costs[2]), costs[3])]
    /\ UNCHANGED <<db, call, res, chained, costs>>

\* The same total, accumulated from the last stage to the first.
TotalInReverseOrder ==
    /\ Len(costs) = 3
    /\ total = Nothing
    /\ total' = [order |-> "reverse",
                 cost  |-> add(add(costs[3], costs[2]), costs[1])]
    /\ UNCHANGED <<db, call, res, chained, costs>>

NextCost ==
    CallCalculateCosts \/ StageCost \/ TotalInStageOrder \/ TotalInReverseOrder

SpecCost == InitCost /\ [][NextCost]_vars

(***************************************************************************)
(* The source an operator call reads, as the specification describes it: a *)
(* catalog collection (count documents of doc_size bytes) or the output of *)
(* a previous operator (OutputDocs rows, OutputSize bytes).                *)
(***************************************************************************)
Returned(op) == call.op = op /\ res.kind = "ok"

SourceCount(coll_name, input) ==
    IF input = Nothing THEN I(db.collections[coll_name].count)
    ELSE input.OutputDocs

SourceBytes(coll_name, input) ==
    IF input = Nothing
    THEN I(db.collections[coll_name].count * db.collections[coll_name].doc_size)
    ELSE input.OutputSize

\* Bytes per document of a source; a previous output without rows has none.
SourceDocSize(coll_name, input) ==
    IF input = Nothing THEN I(db.collections[coll_name].doc_size)
    ELSE IF Less(I(0), input.OutputDocs)
         THEN Div(input.OutputSize, input.OutputDocs)
         ELSE I(0)

IndexFactor(has_index) == IF has_index THEN Fl(1, 100) ELSE Fl(1, 1)

FilterOnShardKey ==
    call.sharding_key # None /\ call.filter_key = call.sharding_key

(***************************************************************************)
(* C1.  simulate_filter, shard-key routing: when a sharding key is set and *)
(* the filter key equals it, then for every node count N >= 1, every       *)
(* source and either value of has_index, the cost has nodes_involved = 1,  *)
(* bytes_transferred = 0 and                                               *)
(* bytes_read = (source_total_bytes / N) * (0.01 if has_index else 1.0).   *)
(***************************************************************************)
C1_FilterShardKeyRouting ==
    (Returned("filter") /\ FilterOnShardKey /\ db.nb_servers >= 1) =>
        /\ NumEq(res.val.Costs.nodes_involved, I(1))
        /\ NumEq(res.val.Costs.data_transfer_bytes, I(0))
        /\ NumEq(res.val.Costs.data_read_bytes,
                 Mul(Div(SourceBytes(call.coll_name, call.input_data),
                         I(db.nb_servers)),
                     IndexFactor(call.has_index)))

\* An indexed filter on the shard key of a previous output, on 3 nodes.
C1_Witness ==
    /\ Returned("filter") /\ FilterOnShardKey /\ db.nb_servers = 3
    /\ call.has_index /\ call.input_data # Nothing
    /\ ~IsZero(res.val.Costs.data_read_bytes)

(***************************************************************************)
(* C2.  simulate_filter, predicate that cannot be routed: when no sharding *)
(* key is set or the filter key differs from it, nodes_involved is the     *)
(* node count of the database,                                             *)
(* bytes_read = source_total_bytes * (0.01 if has_index else 1.0),         *)
(* bytes_transferred is the filter's output size if a sharding key is set  *)
(* and 0 if none is, and the strategy is "Index" or "Full scan", prefixed  *)
(* with "Shard / " exactly when a sharding key is set.                     *)
(***************************************************************************)
C2_FilterNotRoutable ==
    (Returned("filter") /\ ~FilterOnShardKey) =>
        /\ NumEq(res.val.Costs.nodes_involved, I(db.nb_servers))
        /\ NumEq(res.val.Costs.data_read_bytes,
                 Mul(SourceBytes(call.coll_name, call.input_data),
                     IndexFactor(call.has_index)))
        /\ NumEq(res.val.Costs.data_transfer_bytes,
                 IF call.sharding_key # None THEN res.val.OutputSize ELSE I(0))
        /\ res.val.Algo =
             (CASE call.sharding_key # None /\ call.has_index  -> "Shard / Index"
                [] call.sharding_key # None /\ ~call.has_index -> "Shard / Full scan"
                [] call.sharding_key = None /\ call.has_index  -> "Index"
                [] call.sharding_key = None /\ ~call.has_index -> "Full scan")

\* A sharded filter on another key that gathers a non-empty result.
C2_Witness ==
    /\ Returned("filter") /\ ~FilterOnShardKey /\ call.sharding_key # None
    /\ db.nb_servers = 3 /\ ~IsZero(res.val.Costs.data_transfer_bytes)

(***************************************************************************)
(* C3.  simulate_filter output: for every source with source_count > 0 and *)
(* every selectivity in [0,1], the returned row count is                   *)
(* source_count * selectivity and the returned size is that row count      *)
(* times source_size / source_count.                                       *)
(***************************************************************************)
C3_FilterOutput ==
    (Returned("filter")
     /\ Less(I(0), SourceCount(call.coll_name, call.input_data))) =>
        /\ NumEq(res.val.OutputDocs,
                 Mul(SourceCount(call.coll_name, call.input_data),
                     call.selectivity))
        /\ NumEq(res.val.OutputSize,
                 Mul(res.val.OutputDocs,
                     Div(SourceBytes(call.coll_name, call.input_data),
                         SourceCount(call.coll_name, call.input_data))))

(***************************************************************************)
(* C4.  simulate_join output: for every outer and inner source and every   *)
(* sharding configuration, the row count is the outer row count and the    *)
(* size is outer_count * (outer_doc_size + inner_doc_size), whatever the   *)
(* inner row count and the strategy.                                       *)
(***************************************************************************)
C4_JoinOutput ==
    Returned("join") =>
        /\ NumEq(res.val.OutputDocs,
                 SourceCount(call.coll_outer, call.outer_input))
        /\ NumEq(res.val.OutputSize,
                 Mul(SourceCount(call.coll_outer, call.outer_input),
                     Add(SourceDocSize(call.coll_outer, call.outer_input),
                         SourceDocSize(call.coll_inner, call.inner_input))))

\* A sharded join of a catalog collection with a previous output whose row
\* count differs from the outer one.
C4_Witness ==
    /\ Returned("join") /\ call.sharding_info # Nothing
    /\ call.outer_input = Nothing /\ call.inner_input # Nothing
    /\ Less(I(0), call.inner_input.OutputDocs)
    /\ ~NumEq(call.inner_input.OutputDocs, res.val.OutputDocs)
    /\ ~IsZero(res.val.OutputSize)

(***************************************************************************)
(* The cost plan of a join, as the specification lists it.                 *)
(***************************************************************************)
JoinBytes(side) ==
    IF side = "outer" THEN SourceBytes(call.coll_outer, call.outer_input)
    ELSE SourceBytes(call.coll_inner, call.inner_input)

JoinIs(algo, nodes, transferred) ==
    /\ res.val.Algo = algo
    /\ NumEq(res.val.Costs.nodes_involved, nodes)
    /\ NumEq(res.val.Costs.data_transfer_bytes, transferred)

JoinLocal ==
    /\ call.sharding_info = Nothing
    /\ JoinIs("Nested Loop", I(1), I(0))

JoinCollocated ==
    /\ call.sharding_info # Nothing
    /\ call.sharding_info.outer = call.join_key
    /\ call.sharding_info.inner = call.join_key
    /\ JoinIs("Shard / Nested Loop", I(db.nb_servers), I(0))

JoinShuffle ==
    JoinIs("Map/Reduce & Nested Loop", I(db.nb_servers),
           Min(JoinBytes("outer"), JoinBytes("inner")))

(***************************************************************************)
(* C5, as stated.  simulate_join reads outer_bytes + inner_bytes in every  *)
(* case, and every call is one of three: no sharding info (local nested    *)
(* loop on 1 node, nothing transferred); both sides sharded on the join    *)
(* key (collocated, all nodes, nothing transferred); the two sides sharded *)
(* on different keys (map/reduce, all nodes, min(outer_bytes, inner_bytes) *)
(* transferred).                                                           *)
(***************************************************************************)
C5_JoinThreeCases ==
    Returned("join") =>
        /\ NumEq(res.val.Costs.data_read_bytes,
                 Add(JoinBytes("outer"), JoinBytes("inner")))
        /\ \/ JoinLocal
           \/ JoinCollocated
           \/ /\ call.sharding_info # Nothing
              /\ call.sharding_info.outer # call.sharding_info.inner
              /\ JoinShuffle

(***************************************************************************)
(* C5, amended.  As above, with the third case: sharding info is supplied  *)
(* and the two sides are not both sharded on the join key (they may be     *)
(* sharded on one and the same other key).                                 *)
(***************************************************************************)
C5_JoinStrategy ==
    Returned("join") =>
        /\ NumEq(res.val.Costs.data_read_bytes,
                 Add(JoinBytes("outer"), JoinBytes("inner")))
        /\ \/ JoinLocal
           \/ JoinCollocated
           \/ /\ call.sharding_info # Nothing
              /\ ~(/\ call.sharding_info.outer = call.join_key
                   /\ call.sharding_info.inner = call.join_key)
              /\ JoinShuffle

\* Both sides sharded on the same key, which is not the join key, and the
\* smaller side is shuffled.
C5_Witness ==
    /\ Returned("join") /\ call.sharding_info # Nothing
    /\ call.sharding_info.outer = call.sharding_info.inner
    /\ call.sharding_info.outer # call.join_key
    /\ db.nb_servers = 3
    /\ Less(JoinBytes("inner"), JoinBytes("outer"))
    /\ NumEq(res.val.Costs.data_transfer_bytes, JoinBytes("inner"))

(***************************************************************************)
(* C6.  simulate_aggregate output: the row count is the distinct-group     *)
(* count whenever the caller supplies one (0 included) and 10% of the      *)
(* input row count only when none is supplied; the size is the row count   *)
(* times 100 bytes.                                                        *)
(***************************************************************************)
C6_AggregateOutput ==
    Returned("aggregate") =>
        /\ NumEq(res.val.OutputDocs,
                 IF call.distinct_values # Nothing THEN call.distinct_values
                 ELSE Mul(SourceCount(call.coll_name, call.input_data),
                          Fl(1, 10)))
        /\ NumEq(res.val.OutputSize, Mul(res.val.OutputDocs, I(100)))

(***************************************************************************)
(* C7.  simulate_aggregate strategy: bytes_read = source_bytes always;     *)
(* without a sharding key "Local Aggregate" on 1 node, nothing             *)
(* transferred; with the sharding key equal to the group key               *)
(* "Shard / Local Aggregate" on all nodes, nothing transferred; with       *)
(* another sharding key "Map/Reduce Aggregate (Shuffle)" on all nodes,     *)
(* source_bytes * 0.5 transferred.                                         *)
(***************************************************************************)
C7_AggregateStrategy ==
    Returned("aggregate") =>
        LET bytes == SourceBytes(call.coll_name, call.input_data)
            cost  == res.val.Costs
        IN  /\ NumEq(cost.data_read_bytes, bytes)
            /\ call.sharding_key = None =>
                 /\ res.val.Algo = "Local Aggregate"
                 /\ NumEq(cost.nodes_involved, I(1))
                 /\ NumEq(cost.data_transfer_bytes, I(0))
            /\ (call.sharding_key # None
                /\ call.sharding_key = call.group_keys) =>
                 /\ res.val.Algo = "Shard / Local Aggregate"
                 /\ NumEq(cost.nodes_involved, I(db.nb_servers))
                 /\ NumEq(cost.data_transfer_bytes, I(0))
            /\ (call.sharding_key # None
                /\ call.sharding_key # call.group_keys) =>
                 /\ res.val.Algo = "Map/Reduce Aggregate (Shuffle)"
                 /\ NumEq(cost.nodes_involved, I(db.nb_servers))
                 /\ NumEq(cost.data_transfer_bytes, Mul(bytes, Fl(1, 2)))

\* A shuffled aggregate of a previous output on 3 nodes.
C7_Witness ==
    /\ Returned("aggregate") /\ call.input_data # Nothing
    /\ call.sharding_key # None /\ call.sharding_key # call.group_keys
    /\ db.nb_servers = 3 /\ ~IsZero(res.val.Costs.data_transfer_bytes)

(***************************************************************************)
(* Cost vectors are compared component by component, by value.             *)
(***************************************************************************)
CostEq(x, y) == \A f \in DOMAIN x : NumEq(x[f], y[f])

Summed == {"time_s", "carbon_g", "price_eur", "time_read_s", "time_transfer_s",
           "energy_kwh", "data_read_bytes", "data_transfer_bytes"}

(***************************************************************************)
(* C8.  CostResult.add is associative and commutative: for all cost        *)
(* vectors a, b, c, add(add(a,b),c) equals add(a,add(b,c)) and add(a,b)    *)
(* equals add(b,a) on every component, every component being summed except *)
(* nodes_involved, which is the maximum; so the total of a pipeline is the *)
(* same in whatever order the stage costs are accumulated.                 *)
(***************************************************************************)
C8_AddAssociativeCommutative ==
    Len(costs) = 3 =>
        LET a == costs[1]
            b == costs[2]
            c == costs[3]
        IN  /\ \A f \in Summed : NumEq(add(a, b)[f], Add(a[f], b[f]))
            /\ NumEq(add(a, b).nodes_involved,
                     IF Less(a.nodes_involved, b.nodes_involved)
                     THEN b.nodes_involved ELSE a.nodes_involved)
            /\ CostEq(add(a, b), add(b, a))
            /\ CostEq(add(add(a, b), c), add(a, add(b, c)))
            /\ total # Nothing => CostEq(total.cost, add(a, add(b, c)))

(***************************************************************************)
(* C9.  calculate_costs rejects an invalid topology: for every             *)
(* nodes_involved <= 0 the call fails and returns no cost vector, and it   *)
(* never returns a cost vector with non-positive nodes_involved or         *)
(* negative time.                                                          *)
(***************************************************************************)
C9_RejectsInvalidTopology ==
    call.op = "calculate_costs" =>
        /\ ~Less(I(0), call.nodes_involved) => res.kind = "raise"
        /\ res.kind = "ok" =>
             /\ Less(I(0), res.val.nodes_involved)
             /\ ~Less(res.val.time_s, I(0))

\* The call is about at least one node, and returned.
CostOfValidCall ==
    /\ call.op = "calculate_costs" /\ res.kind = "ok"
    /\ ~Less(call.data_read_bytes, I(0))
    /\ ~Less(call.data_transfer_bytes, I(0))
    /\ ~Less(call.nodes_involved, I(1))

CostRecordsInputs ==
    /\ NumEq(res.val.time_read_s,
             Div(call.data_read_bytes, I(IO_SPEED_BYTES_S)))
    /\ NumEq(res.val.time_transfer_s,
             Div(call.data_transfer_bytes, I(NETWORK_SPEED_BYTES_S)))
    /\ NumEq(res.val.data_read_bytes, call.data_read_bytes)
    /\ NumEq(res.val.data_transfer_bytes, call.data_transfer_bytes)
    /\ NumEq(res.val.nodes_involved, call.nodes_involved)

(***************************************************************************)
(* C10, as stated.  For bytes_read >= 0, bytes_transferred >= 0 and        *)
(* nodes_involved >= 1: time_read = bytes_read / io_throughput,            *)
(* time_transfer = bytes_transferred / network_throughput,                 *)
(* total_time * nodes_involved = time_read + time_transfer, and the vector *)
(* records bytes_read, bytes_transferred and nodes_involved unchanged.     *)
(***************************************************************************)
C10_TimeTimesNodes ==
    CostOfValidCall =>
        /\ CostRecordsInputs
        /\ NumEq(Mul(res.val.time_s, res.val.nodes_involved),
                 Add(res.val.time_read_s, res.val.time_transfer_s))

(***************************************************************************)
(* C10, amended.  As above, with total_time the floating-point quotient    *)
(* (time_read + time_transfer) / nodes_involved: multiplied back by        *)
(* nodes_involved it gives the sum only up to rounding.                    *)
(***************************************************************************)
C10_TimeModel ==
    CostOfValidCall =>
        /\ CostRecordsInputs
        /\ NumEq(res.val.time_s,
                 Div(Add(res.val.time_read_s, res.val.time_transfer_s),
                     res.val.nodes_involved))

\* Reading and transferring on 7 nodes, where the quotient is rounded.
C10_Witness ==
    /\ CostOfValidCall
    /\ NumEq(call.nodes_involved, I(7))
    /\ ~IsZero(res.val.time_read_s) /\ ~IsZero(res.val.time_transfer_s)
    /\ ~NumEq(Mul(res.val.time_s, res.val.nodes_involved),
              Add(res.val.time_read_s, res.val.time_transfer_s))

(***************************************************************************)
(* Document sizes (Collection._compute_doc_size).                          *)
(*                                                                         *)
(* A schema node is the dict json.load gives: a record with an optional    *)
(* "type", "properties" (field name -> node) for an object and "items"     *)
(* (a node) for an array.  stats maps field names to cardinalities.  All   *)
(* sizes are Python ints.                                                  *)
(***************************************************************************)
TYPE_SIZES ==
    [string |-> 80, number |-> 8, integer |-> 8, date |-> 20,
     longstring |-> 200]

KEY_OVERHEAD == 12

\* {}: the dict without keys.
EmptyDict == [k \in {} |-> 0]

\* schema_node.get("properties", {})
properties_of(schema_node) ==
    IF "properties" \in DOMAIN schema_node THEN schema_node.properties
    ELSE EmptyDict

\* info.get("type", "object")
type_of(info) == IF "type" \in DOMAIN info THEN info.type ELSE "object"

\* info.get("items", {})
items_of(info) == IF "items" \in DOMAIN info THEN info.items ELSE EmptyDict

\* self.stats.get(key, 1)
cardinality_at_least_one(stats, key) ==
    IF key \in DOMAIN stats /\ stats[key] >= 1 THEN stats[key] ELSE 1

cardinality_of(stats, key) == IF key \in DOMAIN stats THEN stats[key] ELSE 1

\* TYPE_SIZES.get(item_type, 80)
item_type_size(item_type) ==
    IF item_type \in DOMAIN TYPE_SIZES THEN TYPE_SIZES[item_type] ELSE 80

RECURSIVE compute_doc_size(_, _), field_size(_, _, _), fields_size(_, _, _)

\* What one iteration of the loop over properties adds to size.
field_size(key, info, stats) ==
    LET field_type == type_of(info) IN
    IF field_type \in DOMAIN TYPE_SIZES
    THEN KEY_OVERHEAD + TYPE_SIZES[field_type]
    ELSE IF field_type = "object"
    THEN KEY_OVERHEAD + compute_doc_size(info, stats)
    ELSE IF field_type = "array"
    THEN LET items == items_of(info)
             item_type == type_of(items)
             cardinality == cardinality_of(stats, key)
             item_size == IF item_type = "object"
                          THEN compute_doc_size(items, stats)
                          ELSE KEY_OVERHEAD + item_type_size(item_type)
         IN  KEY_OVERHEAD + (cardinality * item_size)
    ELSE 0

\* The loop over properties.items(), restricted to the fields in keys.
fields_size(properties, keys, stats) ==
    IF keys = {} THEN 0
    ELSE LET key == CHOOSE k \in keys : TRUE
         IN  field_size(key, properties[key], stats)
               + fields_size(properties, keys \ {key}, stats)

compute_doc_size(schema_node, stats) ==
    LET properties == properties_of(schema_node)
    IN  fields_size(properties, DOMAIN properties, stats)

\* Collection.__init__: self.stats = stats or {}, then the document size.
Collection(name, schema, count, stats) ==
    LET self_stats == IF stats = Nothing THEN EmptyDict ELSE stats
    IN  [name |-> name, schema |-> schema, count |-> count,
         stats |-> self_stats,
         doc_size |-> compute_doc_size(schema, self_stats)]

(***************************************************************************)
(* Collections built from schemas.  SpecSize constructs one Collection     *)
(* from a schema of nested objects and arrays and a stats dict.            *)
(***************************************************************************)
FieldNames == {"a", "b"}

\* Scalar types: two of TYPE_SIZES, and one it does not list.
ScalarTypes == {"number", "string", "uuid"}

MaxCardinality == 2

Cardinalities == 0 .. MaxCardinality

ScalarNodes == [type : ScalarTypes]

\* Objects whose fields are taken from children.
ObjectNodes(children) ==
    UNION { [type : {"object"}, properties : [S -> children]] :
              S \in SUBSET FieldNames }

ArrayNodes(items) == [type : {"array"}, items : items]

FlatObjects == ObjectNodes(ScalarNodes)

FieldNodes ==
    ScalarNodes \cup FlatObjects \cup ArrayNodes(ScalarNodes \cup FlatObjects)

Schemas == ObjectNodes(FieldNodes)

\* stats=None, or a dict of cardinalities by field name.
StatsArgs ==
    {Nothing} \cup UNION { [S -> Cardinalities] : S \in SUBSET FieldNames }

InitSize ==
    /\ db = [name |-> "DB1", nb_servers |-> 1, collections |-> Catalog]
    /\ call = NoCall
    /\ res = [kind |-> "none"]
    /\ chained = FALSE
    /\ costs = <<>>
    /\ total = Nothing

\* Collection(name, schema_path, count, stats) on the schema the file holds.
NewCollection ==
    /\ call = NoCall
    /\ \E schema \in Schemas, stats \in StatsArgs :
        /\ call' = [op |-> "Collection", schema |-> schema, stats |-> stats]
        /\ res' = Ok(Collection("Product", schema, 10, stats))
        /\ UNCHANGED <<db, chained, costs, total>>

NextSize == NewCollection

SpecSize == InitSize /\ [][NextSize]_vars

(***************************************************************************)
(* What a field of the schema contributes to the document size of the      *)
(* collection just built: the size with the field less the size without.   *)
(***************************************************************************)
CollectionBuilt == call.op = "Collection" /\ res.kind = "ok"

BuiltFields == properties_of(call.schema)

WithoutField(schema, key) ==
    [schema EXCEPT
       !.properties = [k \in (DOMAIN schema.properties) \ {key} |->
                         schema.properties[k]]]

FieldContribution(key) ==
    res.val.doc_size
      - compute_doc_size(WithoutField(call.schema, key), res.val.stats)

IsScalarField(info) == type_of(info) \notin {"object", "array"}

(***************************************************************************)
(* C11.  One policy for scalar fields: a collection is built only if each  *)
(* scalar field of its schema contributes KEY_OVERHEAD plus the size of    *)
(* its type, which for a type missing from TYPE_SIZES is the same default  *)
(* size that an array item of that type is given; such a field never       *)
(* counts for 0 bytes.                                                     *)
(***************************************************************************)
C11_ScalarFieldPolicy ==
    CollectionBuilt =>
        \A key \in DOMAIN BuiltFields :
            IsScalarField(BuiltFields[key]) =>
                /\ FieldContribution(key) # 0
                /\ FieldContribution(key) =
                     KEY_OVERHEAD + item_type_size(type_of(BuiltFields[key]))

(***************************************************************************)
(* C12.  An array field contributes KEY_OVERHEAD + c * item_unit_size,     *)
(* where c is the cardinality stats gives for the field name, 1 when it    *)
(* gives none, and item_unit_size is the document size of the item schema  *)
(* for an object item, KEY_OVERHEAD + TYPE_SIZES[item_type] for an item of *)
(* a type of the table; for every c >= 0.                                  *)
(***************************************************************************)
ArrayCardinality(key) ==
    IF call.stats # Nothing /\ key \in DOMAIN call.stats
    THEN call.stats[key] ELSE 1

ItemUnitSize(items) ==
    IF type_of(items) = "object"
    THEN compute_doc_size(items, res.val.stats)
    ELSE KEY_OVERHEAD + TYPE_SIZES[type_of(items)]

ItemSizeDefined(items) ==
    type_of(items) = "object" \/ type_of(items) \in DOMAIN TYPE_SIZES

C12_ArrayFieldSize ==
    CollectionBuilt =>
        \A key \in DOMAIN BuiltFields :
            (/\ type_of(BuiltFields[key]) = "array"
             /\ ItemSizeDefined(BuiltFields[key].items)) =>
                FieldContribution(key) =
                    KEY_OVERHEAD
                      + ArrayCardinality(key) * ItemUnitSize(BuiltFields[key].items)

\* An array of two-field objects with cardinality 0, beside an array of
\* strings whose name stats does not list.
C12_Witness ==
    /\ CollectionBuilt
    /\ call.stats # Nothing
    /\ DOMAIN call.stats = {"a"}
    /\ call.stats["a"] = 0
    /\ DOMAIN BuiltFields = {"a", "b"}
    /\ type_of(BuiltFields["a"]) = "array"
    /\ type_of(BuiltFields["a"].items) = "object"
    /\ ItemUnitSize(BuiltFields["a"].items) = 2 * KEY_OVERHEAD + 80 + 8
    /\ BuiltFields["b"] = [type |-> "array", items |-> [type |-> "string"]]
    /\ res.val.doc_size = KEY_OVERHEAD + (KEY_OVERHEAD + (KEY_OVERHEAD + 80))

(***************************************************************************)
(* Chained calls: an operator given the output of a previous one.          *)
(***************************************************************************)
ChainedCall(op) == call.op = op /\ chained

\* The database with another collection under another name; a name that
\* catalog has, and one that no catalog has.
OtherCatalog == [Stock |-> [count |-> 7, doc_size |-> 36]]

OtherDb == [db EXCEPT !.collections = OtherCatalog]

AnyCollName == {"Stock", "Missing"}

\* The same call on OtherDb, naming any collection.
ChainedFilterElsewhere(coll_name) ==
    simulate_filter(OtherDb, coll_name, call.filter_key, call.selectivity,
                    call.sharding_key, call.has_index, call.input_data)

ChainedAggregateElsewhere(coll_name) ==
    simulate_aggregate(OtherDb, coll_name, call.group_keys, call.sharding_key,
                       call.input_data, call.distinct_values)

\* Only a side that is given as input may be renamed.
ChainedJoinElsewhere(coll_outer, coll_inner) ==
    simulate_join(IF call.outer_input # Nothing /\ call.inner_input # Nothing
                  THEN OtherDb ELSE db,
                  IF call.outer_input # Nothing THEN coll_outer
                  ELSE call.coll_outer,
                  IF call.inner_input # Nothing THEN coll_inner
                  ELSE call.coll_inner,
                  call.join_key, call.sharding_info,
                  call.outer_input, call.inner_input)

\* A join side that is not given as input is a collection of the catalog.
JoinCatalogSideExists ==
    /\ call.outer_input = Nothing => call.coll_outer \in DOMAIN db.collections
    /\ call.inner_input = Nothing => call.coll_inner \in DOMAIN db.collections

(***************************************************************************)
(* C13.  Pipeline chaining: an operator given a previous output returns    *)
(* (the collection named need not exist), and accounts rows, bytes and     *)
(* bytes per document from that output: OutputDocs rows, OutputSize bytes, *)
(* OutputSize / OutputDocs per document (0 per document for an output      *)
(* without rows); its result and cost are the same whatever collection is  *)
(* named and whatever the catalog holds.                                   *)
(***************************************************************************)
C13_Chaining ==
    /\ ChainedCall("filter") =>
         /\ res.kind = "ok"
         /\ NumEq(res.val.OutputDocs,
                  Trunc(Mul(call.input_data.OutputDocs, call.selectivity)))
         /\ NumEq(res.val.OutputSize,
                  Mul(Mul(call.input_data.OutputDocs, call.selectivity),
                      SourceDocSize(call.coll_name, call.input_data)))
         /\ NumEq(res.val.Costs.data_read_bytes,
                  Mul(IF FilterOnShardKey
                      THEN Div(call.input_data.OutputSize, I(db.nb_servers))
                      ELSE call.input_data.OutputSize,
                      IndexFactor(call.has_index)))
         /\ \A coll_name \in AnyCollName :
                ChainedFilterElsewhere(coll_name) = res
    /\ ChainedCall("aggregate") =>
         /\ res.kind = "ok"
         /\ NumEq(res.val.OutputDocs,
                  Trunc(IF TruthyNum(call.distinct_values)
                        THEN call.distinct_values
                        ELSE Mul(call.input_data.OutputDocs, Fl(1, 10))))
         /\ NumEq(res.val.Costs.data_read_bytes, call.input_data.OutputSize)
         /\ \A coll_name \in AnyCollName :
                ChainedAggregateElsewhere(coll_name) = res
    /\ ChainedCall("join") =>
         /\ JoinCatalogSideExists =>
              /\ res.kind = "ok"
              /\ NumEq(res.val.OutputDocs,
                       SourceCount(call.coll_outer, call.outer_input))
              /\ NumEq(res.val.OutputSize,
                       Mul(SourceCount(call.coll_outer, call.outer_input),
                           Add(SourceDocSize(call.coll_outer, call.outer_input),
                               SourceDocSize(call.coll_inner, call.inner_input))))
              /\ NumEq(res.val.Costs.data_read_bytes,
                       Add(SourceBytes(call.coll_outer, call.outer_input),
                           SourceBytes(call.coll_inner, call.inner_input)))
         /\ \A coll_name \in AnyCollName :
                ChainedJoinElsewhere(coll_name, coll_name) = res

\* An aggregate of a previous output without rows but with bytes, naming no
\* collection.
C13_Witness ==
    /\ ChainedCall("aggregate") /\ res.kind = "ok"
    /\ call.coll_name = None
    /\ IsZero(call.input_data.OutputDocs)
    /\ ~IsZero(call.input_data.OutputSize)
    /\ ~IsZero(res.val.Costs.data_read_bytes)

(***************************************************************************)
(* A stage output reused.  In SpecReuse res keeps the output of the first  *)
(* stage of a query (q7a); later stages are given it as input, call is the *)
(* last call, costs collects the Costs of the stages, and total is their   *)
(* sum.  A call is modelled with what it leaves of the objects passed to   *)
(* it.                                                                     *)
(***************************************************************************)
\* Mutant of add_effect: the sum is accumulated in self, which is returned.
add_in_place(self, other) ==
    [result |-> add(self, other), self |-> add(self, other), other |-> other]

\* self.add(other): the CostResult returned, and the two operands after
\* the call (add assigns to no attribute of either).
add_effect(self, other) ==
    [result |-> add(self, other), self |-> self, other |-> other]

ReuseShardingKeys == {None, "IDP"}

ReuseShardingInfos == {Nothing, [outer |-> "IDP", inner |-> "IDC"]}

\* The first stage: a filter of a catalog collection.
FirstStage ==
    /\ call = NoCall
    /\ \E coll_name \in CollNames, selectivity \in Selectivities,
          sharding_key \in ReuseShardingKeys :
        /\ call' = [op |-> "filter", coll_name |-> coll_name,
                    filter_key |-> "IDP", selectivity |-> selectivity,
                    sharding_key |-> sharding_key, has_index |-> FALSE,
                    input_data |-> Nothing]
        /\ res' = simulate_filter(db, coll_name, "IDP", selectivity,
                                  sharding_key, FALSE, Nothing)
        /\ costs' = <<res'.val.Costs>>
        /\ UNCHANGED <<db, chained, total>>

StageReusable == res.kind = "ok" /\ Len(costs) \in {1, 2}

\* simulate_filter(db, None, ..., input_data=q7a)
ReuseInFilter ==
    /\ StageReusable
    /\ \E selectivity \in Selectivities, sharding_key \in ReuseShardingKeys :
        LET out == simulate_filter(db, None, "IDP", selectivity, sharding_key,
                                   FALSE, res.val)
        IN  /\ call' = [op |-> "filter", coll_name |-> None,
                        filter_key |-> "IDP", selectivity |-> selectivity,
                        sharding_key |-> sharding_key, has_index |-> FALSE,
                        input_data |-> res.val]
            /\ costs' = Append(costs, out.val.Costs)
            /\ chained' = TRUE
            /\ UNCHANGED <<db, res, total>>

\* simulate_aggregate(db, None, ..., input_data=q7a)
ReuseInAggregate ==
    /\ StageReusable
    /\ \E sharding_key \in ReuseShardingKeys,
          distinct_values \in DistinctValues :
        LET out == simulate_aggregate(db, None, "IDP", sharding_key, res.val,
                                      distinct_values)
        IN  /\ call' = [op |-> "aggregate", coll_name |-> None,
                        group_keys |-> "IDP", sharding_key |-> sharding_key,
                        input_data |-> res.val,
                        distinct_values |-> distinct_values]
            /\ costs' = Append(costs, out.val.Costs)
            /\ chained' = TRUE
            /\ UNCHANGED <<db, res, total>>

\* simulate_join(db, None, ..., outer_input=q7a), the inner side a catalog
\* collection or q7a again.
ReuseInJoin ==
    /\ StageReusable
    /\ \E sharding_info \in ReuseShardingInfos,
          inner_input \in {Nothing, res.val} :
        LET coll_inner == IF inner_input = Nothing THEN "Product" ELSE None
            out == simulate_join(db, None, coll_inner, "IDP", sharding_info,
                                 res.val, inner_input)
        IN  /\ call' = [op |-> "join", coll_outer |-> None,
                        coll_inner |-> coll_inner, join_key |-> "IDP",
                        sharding_info |-> sharding_info,
                        outer_input |-> res.val, inner_input |-> inner_input]
            /\ costs' = Append(costs, out.val.Costs)
            /\ chained' = TRUE
            /\ UNCHANGED <<db, res, total>>

\* total = q7a["Costs"].add(q7b["Costs"]).add(q7c["Costs"])
TotalOfStages ==
    /\ Len(costs) = 3
    /\ total = Nothing
    /\ LET first  == add_effect(costs[1], costs[2])
           second == add_effect(first.result, costs[3])
       IN  /\ total' = [order |-> "stage", cost |-> second.result]
           /\ costs' = <<first.self, first.other, second.other>>
    /\ UNCHANGED <<db, call, res, chained>>

NextReuse ==
    \/ FirstStage
    \/ ReuseInFilter
    \/ ReuseInAggregate
    \/ ReuseInJoin
    \/ TotalOfStages

SpecReuse == Init /\ [][NextReuse]_vars

(***************************************************************************)
(* C14.  No value is mutated after construction: every step leaves the     *)
(* database (collections, counts, document sizes, node count) unchanged,   *)
(* leaves the stage output unchanged that it is given as input, leaves     *)
(* every CostResult computed so far unchanged (add returns a new one), and *)
(* leaves a total unchanged once it is computed.                           *)
(***************************************************************************)
C14_NoMutation ==
    [][/\ db' = db
       /\ res.kind = "ok" => res' = res
       /\ Len(costs') >= Len(costs)
       /\ \A i \in 1 .. Len(costs) : costs'[i] = costs[i]
       /\ total # Nothing => total' = total]_vars

\* A stage output consumed by two later stages, the last a join with it on
\* both sides, and the stage costs added up: the output still holds the
\* Costs it was returned with.
C14_Witness ==
    /\ total # Nothing
    /\ Len(costs) = 3
    /\ call.op = "join" /\ call.inner_input = res.val
    /\ res.val.Costs = costs[1]
    /\ ~IsZero(costs[2].time_s)
    /\ total.cost # costs[1]

(***************************************************************************)
(* The schema-structure size model (build_structure and                    *)
(* compute_document_size).  A structure is the dict build_structure        *)
(* returns: title, type and fields, a field being a scalar with its size,  *)
(* a structure (object) or an array with the structure of its items.       *)
(***************************************************************************)
\* schema.get("title", "Unknown")
title_of(schema) ==
    IF "title" \in DOMAIN schema THEN schema.title ELSE "Unknown"

RECURSIVE build_structure(_)

\* The structure entry of one property.
build_field(prop) ==
    LET field_type == prop.type IN
    IF field_type = "string" THEN [type |-> "string", size |-> 20]
    ELSE IF field_type = "number" THEN [type |-> "number", size |-> 8]
    ELSE IF field_type = "object" THEN build_structure(prop)
    ELSE IF field_type = "array"
    THEN [type |-> "array", items |-> build_structure(prop.items)]
    ELSE [type |-> field_type, size |-> 16]

build_structure(schema) ==
    LET properties == properties_of(schema)
    IN  [title  |-> title_of(schema),
         type   |-> schema.type,
         fields |-> [name \in DOMAIN properties |->
                       build_field(properties[name])]]

\* The count of an array: stats["Product"]["orderlines_per_product"] for
\* embedded OrderLines, 1 otherwise.
array_count(items, stats) ==
    IF items.title = "OrderLine" THEN stats.Product.orderlines_per_product
    ELSE 1

RECURSIVE compute_document_size(_, _), struct_fields_size(_, _, _)

\* What one iteration of the loop over struct["fields"] adds to size.
struct_field_size(field, stats) ==
    IF field.type \in {"string", "number"} THEN field.size
    ELSE IF field.type = "object" THEN compute_document_size(field, stats)
    ELSE IF field.type = "array"
    THEN compute_document_size(field.items, stats)
           * array_count(field.items, stats)
    ELSE 0

struct_fields_size(fields, names, stats) ==
    IF names = {} THEN 0
    ELSE LET field_name == CHOOSE n \in names : TRUE
         IN  struct_field_size(fields[field_name], stats)
               + struct_fields_size(fields, names \ {field_name}, stats)

compute_document_size(struct, stats) ==
    struct_fields_size(struct.fields, DOMAIN struct.fields, stats)

RECURSIVE subscripts_stats(_)

\* Whether compute_document_size reaches stats["Product"][...] on struct.
subscripts_stats(struct) ==
    \E name \in DOMAIN struct.fields :
        LET field == struct.fields[name] IN
        \/ field.type = "object" /\ subscripts_stats(field)
        \/ field.type = "array"
             /\ (field.items.title = "OrderLine" \/ subscripts_stats(field.items))

\* compute_document_size(struct, stats) as a call: stats=None cannot be
\* subscripted.
document_size_call(struct, stats) ==
    IF stats = Nothing /\ subscripts_stats(struct)
    THEN Raise("TypeError")
    ELSE Ok(compute_document_size(struct, stats))

(***************************************************************************)
(* SpecStruct builds the structure of a schema, then computes the size of  *)
(* a document of it.                                                       *)
(***************************************************************************)
StructScalarTypes == {"string", "number", "integer"}

StructScalars == [type : StructScalarTypes]

StructObjects == ObjectNodes(StructScalars)

\* The schema of an embedded entity may carry its title.
TitledObjects ==
    { [title |-> "OrderLine", type |-> "object", properties |-> o.properties] :
        o \in StructObjects }

StructFields ==
    StructScalars \cup StructObjects
      \cup ArrayNodes(StructScalars \cup StructObjects \cup TitledObjects)

StructSchemas == ObjectNodes(StructFields)

MaxOrderLines == 2

StructStats ==
    {Nothing}
      \cup { [Product |-> [orderlines_per_product |-> n]] :
               n \in {0, MaxOrderLines} }

InitStruct ==
    /\ db = [name |-> "DB1", nb_servers |-> 1, collections |-> Catalog]
    /\ call = NoCall
    /\ res = [kind |-> "none"]
    /\ chained = FALSE
    /\ costs = <<>>
    /\ total = Nothing

BuildStructure ==
    /\ call = NoCall
    /\ \E schema \in StructSchemas :
        /\ call' = [op |-> "build_structure", schema |-> schema]
        /\ res' = Ok(build_structure(schema))
        /\ UNCHANGED <<db, chained, costs, total>>

ComputeDocumentSize ==
    /\ call.op = "build_structure"
    /\ \E stats \in StructStats :
        /\ call' = [op |-> "compute_document_size", struct |-> res.val,
                    stats |-> stats]
        /\ res' = document_size_call(res.val, stats)
        /\ UNCHANGED <<db, chained, costs, total>>

NextStruct == BuildStructure \/ ComputeDocumentSize

SpecStruct == InitStruct /\ [][NextStruct]_vars

(***************************************************************************)
(* The document size the structure declares: the size build_structure      *)
(* assigned to every scalar field, the sizes of nested objects, and        *)
(* count * item size for arrays.                                           *)
(***************************************************************************)
RECURSIVE DeclaredSize(_, _), DeclaredFieldsSize(_, _, _)

DeclaredFieldSize(field, stats) ==
    IF field.type = "object" THEN DeclaredSize(field, stats)
    ELSE IF field.type = "array"
    THEN array_count(field.items, stats) * DeclaredSize(field.items, stats)
    ELSE field.size

DeclaredFieldsSize(fields, names, stats) ==
    IF names = {} THEN 0
    ELSE LET n == CHOOSE x \in names : TRUE
         IN  DeclaredFieldSize(fields[n], stats)
               + DeclaredFieldsSize(fields, names \ {n}, stats)

DeclaredSize(struct, stats) ==
    DeclaredFieldsSize(struct.fields, DOMAIN struct.fields, stats)

(***************************************************************************)
(* C15.  In the schema-structure size model every declared scalar field    *)
(* contributes the size build_structure assigned to it (20 for string, 8   *)
(* for number, 16 for any other scalar type), and the document size is the *)
(* sum of these sizes, of the sizes of nested objects and of               *)
(* count * item size for arrays.                                           *)
(***************************************************************************)
C15_StructureSize ==
    (call.op = "compute_document_size" /\ res.kind = "ok") =>
        res.val = DeclaredSize(call.struct, call.stats)

(***************************************************************************)
(* Costs of the same volumes on different numbers of nodes.                *)
(***************************************************************************)
SameVolumes(a, b) ==
    /\ NumEq(a.data_read_bytes, b.data_read_bytes)
    /\ NumEq(a.data_transfer_bytes, b.data_transfer_bytes)

\* x and y differ by at most 16 units of rounding: |x - y| <= 2^(4 -
\* Precision) * |y|, compared exactly.
CloseTo(x, y) ==
    LET a  == Val(x)
        b  == Val(y)
        e0 == IF a.e < b.e THEN a.e ELSE b.e
        ma == a.e + BitLen(Abs(a.m))
        mb == b.e + BitLen(Abs(b.m))
    IN  IF a = b THEN TRUE
        ELSE IF a.m = 0 \/ b.m = 0 \/ Sgn(a.m) # Sgn(b.m) THEN FALSE
        ELSE IF ma - mb > 1 \/ mb - ma > 1 THEN FALSE
        ELSE Abs(a.m * Pow2(a.e - e0) - b.m * Pow2(b.e - e0)) * MaxSig
               <= 16 * Abs(b.m * Pow2(b.e - e0))

StagePairs ==
    { p \in (1 .. Len(costs)) \X (1 .. Len(costs)) :
        p[1] # p[2] /\ SameVolumes(costs[p[1]], costs[p[2]]) }

\* On one node the total time is the whole time; on n nodes it is that
\* time divided by n.
TimeInverseInNodes ==
    \A p \in StagePairs :
        NumEq(costs[p[1]].nodes_involved, I(1)) =>
            NumEq(costs[p[2]].time_s,
                  Div(costs[p[1]].time_s, costs[p[2]].nodes_involved))

(***************************************************************************)
(* C16.  Energy, carbon and price are independent of the degree of         *)
(* parallelism: two calls of calculate_costs with the same bytes read and  *)
(* transferred return the same energy_kwh, carbon_g and price_eur for any  *)
(* nodes_involved >= 1; only the total time changes, inversely with        *)
(* nodes_involved.                                                         *)
(***************************************************************************)
C16_EnergyIndependentOfNodes ==
    /\ TimeInverseInNodes
    /\ \A p \in StagePairs :
         /\ NumEq(costs[p[1]].energy_kwh, costs[p[2]].energy_kwh)
         /\ NumEq(costs[p[1]].carbon_g, costs[p[2]].carbon_g)
         /\ NumEq(costs[p[1]].price_eur, costs[p[2]].price_eur)

(***************************************************************************)
(* C16, amended.  As above, with energy, carbon and price equal up to      *)
(* floating-point rounding: the division by nodes_involved and the         *)
(* multiplication back are each rounded, so the values agree within a few  *)
(* units in the last place.                                                *)
(***************************************************************************)
C16_EnergyModel ==
    /\ TimeInverseInNodes
    /\ \A p \in StagePairs :
         /\ CloseTo(costs[p[1]].energy_kwh, costs[p[2]].energy_kwh)
         /\ CloseTo(costs[p[1]].carbon_g, costs[p[2]].carbon_g)
         /\ CloseTo(costs[p[1]].price_eur, costs[p[2]].price_eur)

\* The same bytes read and transferred on 1 node and on 3 nodes: the time
\* is divided, and the energies differ in their last bits only.
C16_Witness ==
    /\ Len(costs) >= 2
    /\ SameVolumes(costs[1], costs[2])
    /\ NumEq(costs[1].nodes_involved, I(1))
    /\ NumEq(costs[2].nodes_involved, I(3))
    /\ ~IsZero(costs[1].data_transfer_bytes)
    /\ ~NumEq(costs[1].time_s, costs[2].time_s)
    /\ ~NumEq(costs[1].energy_kwh, costs[2].energy_kwh)
    /\ CloseTo(costs[1].energy_kwh, costs[2].energy_kwh)

=============================================================================
